---- MODULE Spec2Model ----
(***************************************************************************)
(* A model of pspio.io.PSPFile (src/pspio/io.py): the reader of PSP        *)
(* snapshot files.  The state is the file on disk, the numpy build the     *)
(* reader runs on, and one PSPFile object: its two lazily loaded slots     *)
(* (_comp_headers, _comp_data), the attributes the header scan sets, and   *)
(* the position of a data load in progress.                                *)
(*                                                                         *)
(* The file is a sequence of bytes.  A number read from the file is kept   *)
(* as its little-endian bytes (base-256 digits), so that the 32-bit and    *)
(* 64-bit arithmetic of the reader is computed at its real width.          *)
(***************************************************************************)
EXTENDS Integers, Sequences, FiniteSets, TLC

(***************************************************************************)
(* Bounds of the model.                                                    *)
(***************************************************************************)
MaxComp == 2        \* components written to a file
MaxBodies == 2      \* bodies written per component
MaxAttr == 1        \* integer / float attributes per body

(***************************************************************************)
(* Numbers as little-endian base-256 digit sequences.                      *)
(***************************************************************************)
Max(a, b) == IF a >= b THEN a ELSE b

Digit(a, i) == IF i <= Len(a) THEN a[i] ELSE 0

\* n (0 <= n < 2^31) as k little-endian bytes
Bytes(n, k) == [i \in 1..k |-> IF i > 4 THEN 0
                 ELSE CASE i = 1 -> n % 256
                        [] i = 2 -> (n \div 256) % 256
                        [] i = 3 -> (n \div 65536) % 256
                        [] i = 4 -> (n \div 16777216) % 256]

U32(n) == Bytes(n, 4)

Zeros(k) == [i \in 1..k |-> 0]

\* value equality of two digit sequences of any lengths
NumEq(a, b) == \A i \in 1..Max(Len(a), Len(b)) : Digit(a, i) = Digit(b, i)

\* the value is below 2^16: it can be a position in a file of the model
Small(a) == \A i \in 3..Len(a) : a[i] = 0

Val(a) == Digit(a, 1) + 256 * Digit(a, 2)

RECURSIVE AddFrom(_, _, _, _, _)
AddFrom(a, b, i, c, w) ==
    IF i > w THEN <<>>
    ELSE LET s == Digit(a, i) + Digit(b, i) + c
         IN  <<s % 256>> \o AddFrom(a, b, i + 1, s \div 256, w)

\* (a + b) mod 256^w, as w digits
NumAdd(a, b, w) == AddFrom(a, b, 1, 0, w)

RECURSIVE MulDigitFrom(_, _, _, _, _)
MulDigitFrom(b, d, i, c, w) ==
    IF i > w THEN <<>>
    ELSE LET s == Digit(b, i) * d + c
         IN  <<s % 256>> \o MulDigitFrom(b, d, i + 1, s \div 256, w)

RECURSIVE MulFrom(_, _, _, _)
MulFrom(a, b, i, w) ==
    IF i > Len(a) \/ i > w THEN Zeros(w)
    ELSE NumAdd(Zeros(i - 1) \o MulDigitFrom(b, a[i], 1, 0, w - (i - 1)),
                MulFrom(a, b, i + 1, w), w)

\* (a * b) mod 256^w, as w digits
NumMul(a, b, w) == MulFrom(a, b, 1, w)

\* the exact (unbounded) results: ten digits hold any product of a 32-bit
\* count with a record size below 2^37, and any sum of such offsets
ExactAdd(a, b) == NumAdd(a, b, 10)
ExactMul(a, b) == NumMul(a, b, 10)

\* a w-byte two's complement number is negative
Negative(a, w) == Digit(a, w) >= 128

(***************************************************************************)
(* The files the reader is run on.  A file is what a PSP writer produces   *)
(* for a description (layout, attribute counts, component names, body      *)
(* counts), with at most one departure from the format applied to it.      *)
(***************************************************************************)
Names == {"a", "b"}

\* 2915019716 = 0xADBFABC4, little-endian
Magic == <<196, 171, 191, 173>>
MagicPlus1 == <<197, 171, 191, 173>>
Pow27 == <<0, 0, 0, 8>>
Pow29 == <<0, 0, 0, 32>>
Pow30 == <<0, 0, 0, 64>>
Pow31 == <<0, 0, 0, 128>>

\* The info string is structured text handed to the YAML parser.  Its
\* documents are written here one byte per top-level entry:
\*   'a', 'b'   name: a / name: b
\*   'T', 'F'   parameters: {indexing: true} / {indexing: false}
\*   '2'        parameters: {indexing: 2}
\*   'P'        parameters: {}
\*   'I'        index: 9
\* a byte >= 128 is not UTF-8, any other byte makes the text no mapping.
ChName(nm) == IF nm = "a" THEN 97 ELSE 98
ChIndexing(v) == CASE v = 0 -> 70 [] v = 1 -> 84 [] OTHER -> 50
ChParamsEmpty == <<80>>
ChIndexKey == <<73>>
ChBadUtf8 == <<255>>
ChScalar == <<120>>

\* departures tried on every description
DataDepartures == {"none", "totalOff", "idx2", "cutData", "ncompLess"}

\* departures tried on the descriptions without attributes
HeaderDepartures ==
    { "cutInfo", "cutInts", "cutMagic", "ncompMore", "w16zero", "w16magic",
      "w16plus1", "noName", "noParams", "noIndexing", "badUtf8", "notMapping",
      "metaIndex", "n27", "n31nf30", "n31nf29" }

RECURSIVE SeqsUpTo(_, _)
SeqsUpTo(S, k) ==
    IF k = 0 THEN {<<>>}
    ELSE LET shorter == SeqsUpTo(S, k - 1)
         IN  shorter \cup {Append(s, e) : s \in {t \in shorter : Len(t) = k - 1}, e \in S}

Descs ==
    [ fl : {4, 8}, idx : {0, 1}, ni : 0..MaxAttr, nf : 0..MaxAttr,
      n0 : {1, MaxBodies}, names : SeqsUpTo(Names, MaxComp), dep : DataDepartures ]
    \cup
    [ fl : {4, 8}, idx : {0, 1}, ni : {0}, nf : {0},
      n0 : {1}, names : SeqsUpTo(Names, MaxComp), dep : HeaderDepartures ]

\* bodies written for the i-th component (1-based): the counts differ from
\* one component to the next
Written(d, i) == (d.n0 + i - 1) % (MaxBodies + 1)

WrittenRecord(d) == 8 * d.idx + d.fl * 8 + 4 * d.ni + d.fl * d.nf

DataByte(c, j) == (c * 101 + j * 7 + 13) % 256

IsLast(d, i) == i = Len(d.names)

InfoText(d, i) ==
    LET nm == <<ChName(d.names[i])>>
        ix == <<ChIndexing(d.idx)>>
    IN  IF ~IsLast(d, i) THEN nm \o ix
        ELSE CASE d.dep = "noName"     -> ix
               [] d.dep = "noParams"   -> nm
               [] d.dep = "noIndexing" -> nm \o ChParamsEmpty
               [] d.dep = "badUtf8"    -> nm \o ChBadUtf8
               [] d.dep = "notMapping" -> nm \o ChScalar \o ix
               [] d.dep = "idx2"       -> nm \o <<ChIndexing(2)>>
               [] d.dep = "metaIndex"  -> nm \o ChIndexKey \o ix
               [] OTHER                -> nm \o ix

CountWord(d, i) ==
    IF IsLast(d, i) /\ d.dep = "n27" THEN Pow27
    ELSE IF IsLast(d, i) /\ d.dep \in {"n31nf30", "n31nf29"} THEN Pow31
    ELSE U32(Written(d, i))

FloatAttrWord(d, i) ==
    IF IsLast(d, i) /\ d.dep = "n31nf30" THEN Pow30
    ELSE IF IsLast(d, i) /\ d.dep = "n31nf29" THEN Pow29
    ELSE U32(d.nf)

ComponentBytes(d, i) ==
    LET info == InfoText(d, i)
        size == Written(d, i) * WrittenRecord(d)
    IN  (IF d.fl = 4 THEN Magic \o U32(0) ELSE <<>>)
        \o CountWord(d, i) \o U32(d.ni) \o FloatAttrWord(d, i) \o U32(Len(info))
        \o info
        \o [j \in 1..size |-> DataByte(i, j)]

RECURSIVE Sum(_, _)
Sum(f, k) == IF k = 0 THEN 0 ELSE f[k] + Sum(f, k - 1)

MasterBytes(d) ==
    LET k == Len(d.names)
        total == Sum([i \in 1..k |-> Written(d, i)], k)
                 + (IF d.dep = "totalOff" THEN 1 ELSE 0)
        declared == CASE d.dep = "ncompLess" /\ k > 0 -> k - 1
                      [] d.dep = "ncompMore" -> k + 1
                      [] OTHER -> k
    IN  Bytes(0, 8) \o U32(total) \o U32(declared)

RECURSIVE Prefix(_, _)
\* the master header and the first k components
Prefix(d, k) == IF k = 0 THEN MasterBytes(d)
                ELSE Prefix(d, k - 1) \o ComponentBytes(d, k)

Overwrite(b, at, w) ==
    IF Len(b) < at + Len(w) THEN b
    ELSE [i \in 1..Len(b) |-> IF i > at /\ i <= at + Len(w) THEN w[i - at] ELSE b[i]]

CutTo(b, len) == IF len < Len(b) /\ len >= 0 THEN SubSeq(b, 1, len) ELSE b

BuildFile(d) ==
    LET k == Len(d.names)
        full == Prefix(d, k)
        lastStart == IF k = 0 THEN 16 ELSE Len(Prefix(d, k - 1))
        ints == IF d.fl = 4 THEN 24 ELSE 16
    IN  CASE d.dep = "cutData"  -> CutTo(full, Len(full) - 1)
          [] d.dep = "cutInfo"  -> CutTo(full, lastStart + ints + 1)
          [] d.dep = "cutInts"  -> CutTo(full, lastStart + 18)
          [] d.dep = "cutMagic" -> CutTo(full, 18)
          [] d.dep = "w16zero"  -> Overwrite(full, 16, U32(0))
          [] d.dep = "w16magic" -> Overwrite(full, 16, Magic)
          [] d.dep = "w16plus1" -> Overwrite(full, 16, MagicPlus1)
          [] OTHER -> full

Files == {BuildFile(d) : d \in Descs}

(***************************************************************************)
(* Reading the file: np.fromfile, and the text of an info string.          *)
(***************************************************************************)
Min(a, b) == IF a <= b THEN a ELSE b

\* np.fromfile(f, dtype, count) with the cursor at pos: the whole items that
\* are there (at most count) and the cursor afterwards (the end of the
\* file after a short read)
FromFile(b, pos, size, count) ==
    LET avail == IF pos >= Len(b) THEN 0 ELSE (Len(b) - pos) \div size
        got == Min(count, avail)
    IN  [ items |-> [j \in 1..got |-> SubSeq(b, pos + size * (j - 1) + 1, pos + size * j)],
          pos |-> IF got = count THEN pos + size * count ELSE Max(pos, Len(b)) ]

\* bytes.decode(): UTF-8
Decodes(text) == \A i \in 1..Len(text) : text[i] < 128

KnownEntries == {97, 98, 70, 84, 50, 80, 73}

\* yaml.safe_load gives a mapping
IsMapping(text) == Len(text) > 0 /\ \A i \in 1..Len(text) : text[i] \in KnownEntries

Last(text, S) ==
    LET at == {i \in 1..Len(text) : text[i] \in S}
    IN  IF at = {} THEN 0 ELSE text[CHOOSE i \in at : \A j \in at : j <= i]

\* yaml.safe_load(head_normal): the mapping, by its entries.  name is "" and
\* parameters "absent" when the key is missing; indexing is -1 when
\* parameters has no such key, else the value (false 0, true 1, or 2)
SafeLoad(text) ==
    LET nm == Last(text, {97, 98})
        pr == Last(text, {70, 84, 50, 80})
    IN  [ name |-> CASE nm = 97 -> "a" [] nm = 98 -> "b" [] OTHER -> "",
          parameters |-> IF pr = 0 THEN "absent" ELSE "mapping",
          indexing |-> CASE pr = 70 -> 0 [] pr = 84 -> 1 [] pr = 50 -> 2 [] OTHER -> -1,
          index |-> IF Last(text, {73}) = 0 THEN -1 ELSE 9 ]

(***************************************************************************)
(* numpy's scalar arithmetic.  Before NEP 50 ("legacy") a Python int times *)
(* a uint32 scalar is an int64; with NEP 50 ("nep50", numpy 2) it is a     *)
(* uint32.  Both wrap silently.                                            *)
(***************************************************************************)
NumpyModes == {"legacy", "nep50"}

IntWidth(mode) == IF mode = "legacy" THEN 8 ELSE 4

\* nbodies * (8 * int(indexing) + float_len * nfields + 4 * nint_attr
\*            + float_len * nfloat_attr)
CompLength(mode, fl, indexing, nbodies, nint_attr, nfloat_attr) ==
    LET w == IntWidth(mode)
        nfields == 8
        fixed == Bytes(8 * indexing + fl * nfields, w)
        ints == NumMul(U32(4), nint_attr, w)
        floats == NumMul(U32(fl), nfloat_attr, w)
    IN  NumMul(nbodies, NumAdd(NumAdd(fixed, ints, w), floats, w), w)

\* f.tell() + comp_length
CompDataEnd(mode, tell, comp_length) ==
    NumAdd(Bytes(tell, IntWidth(mode)), comp_length, IntWidth(mode))

\* the cursor after f.seek(comp_data_end): seeking past the end of the file
\* is allowed, and every read from there comes back empty
SeekPos(b, end) == IF Small(end) THEN Val(end) ELSE Len(b) + 1

(***************************************************************************)
(* PSPFile._load_component_header, in the order of its statements.  Each   *)
(* stage hands the values computed so far to the next.                     *)
(***************************************************************************)
NoHeader == [ index |-> -1, indexing |-> -1, nint_attr |-> <<>>, nfloat_attr |-> <<>>,
              nbodies |-> <<>>, data_start |-> -1, data_end |-> <<>> ]

Raise(exc, read) ==
    [ exc |-> exc, name |-> "", data |-> NoHeader, pos |-> 0, read |-> read ]

\* the words the header is unpacked from: six are asked for and the last
\* four taken when the floats are 4 bytes wide, four otherwise
HeaderWordCount(fl) == IF fl = 4 THEN 6 ELSE 4

\* data = dict() ... f.seek(comp_data_end); return data
HeaderData(b, mode, comp_idx, read, counts, head_dict, comp_data_pos, comp_data_end) ==
    IF mode = "legacy" /\ Negative(comp_data_end, 8)
    THEN Raise("OSError", read)
    ELSE [ exc |-> "none",
           name |-> head_dict.name,
           data |-> [ index |-> IF head_dict.index = -1 THEN comp_idx ELSE head_dict.index,
                      indexing |-> head_dict.indexing,
                      nint_attr |-> counts[2],
                      nfloat_attr |-> counts[3],
                      nbodies |-> counts[1],
                      data_start |-> comp_data_pos,
                      data_end |-> comp_data_end ],
           pos |-> SeekPos(b, comp_data_end),
           read |-> read ]

\* comp_data_pos = f.tell(); comp_length = ...; comp_data_end = f.tell() + comp_length
HeaderExtent(b, mode, fl, comp_idx, read, counts, head_dict, comp_data_pos) ==
    IF head_dict.parameters = "absent" \/ head_dict.indexing = -1
    THEN Raise("KeyError", read)
    ELSE HeaderData(b, mode, comp_idx, read, counts, head_dict, comp_data_pos,
                    CompDataEnd(mode, comp_data_pos,
                                CompLength(mode, fl, head_dict.indexing,
                                           counts[1], counts[2], counts[3])))

\* head_normal = head[0].decode(); head_dict = yaml.safe_load(head_normal)
HeaderInfo(b, mode, fl, comp_idx, read, counts, head) ==
    IF Len(head.items) = 0 THEN Raise("IndexError", read)
    ELSE IF ~Decodes(head.items[1]) THEN Raise("UnicodeDecodeError", read)
    ELSE IF ~IsMapping(head.items[1]) THEN Raise("TypeError", read)
    ELSE HeaderExtent(b, mode, fl, comp_idx, read, counts, SafeLoad(head.items[1]), head.pos)

\* head = np.fromfile(f, dtype=np.dtype((np.bytes_, infostringlen)), count=1):
\* no item of zero size can be read, and none longer than the file
HeaderText(b, mode, fl, comp_idx, read, counts, infostringlen, pos) ==
    IF NumEq(infostringlen, <<>>) THEN Raise("ValueError", read)
    ELSE HeaderInfo(b, mode, fl, comp_idx, read, counts,
                    IF Small(infostringlen)
                    THEN FromFile(b, pos, Val(infostringlen), 1)
                    ELSE [items |-> <<>>, pos |-> Max(pos, Len(b))])

\* the unpacking of the words read: *_, nbodies, nint_attr, nfloat_attr,
\* infostringlen takes the last four of at least four, and the plain
\* tuple takes exactly four
HeaderWords(b, mode, fl, comp_idx, read, ints) ==
    IF (fl = 4 /\ read.got < 4) \/ (fl # 4 /\ read.got # 4)
    THEN Raise("ValueError", read)
    ELSE HeaderText(b, mode, fl, comp_idx, read,
                    << ints.items[read.got - 3], ints.items[read.got - 2],
                       ints.items[read.got - 1] >>,
                    ints.items[read.got], ints.pos)

HeaderRead(b, mode, fl, comp_idx, pos, ints) ==
    HeaderWords(b, mode, fl, comp_idx,
                [pos |-> pos, count |-> HeaderWordCount(fl), got |-> Len(ints.items)], ints)

LoadComponentHeader(b, mode, fl, pos, comp_idx) ==
    HeaderRead(b, mode, fl, comp_idx, pos, FromFile(b, pos, 4, HeaderWordCount(fl)))

(***************************************************************************)
(* PSPFile._load_headers                                                   *)
(***************************************************************************)
\* a reader that takes the next value for the magic number as well
FloatLen_alsoNext(cmagic) ==
    IF NumEq(cmagic, Magic) \/ NumEq(cmagic, MagicPlus1) THEN 4 ELSE 8

\* check if it is float vs. double
FloatLen(cmagic) == IF NumEq(cmagic, Magic) THEN 4 ELSE 8

\* comp_header[key] = val on an insertion-ordered dict, kept as a sequence
\* of entries: a key already there keeps its place and takes the new value
DictSet(d, key, val) ==
    IF \E i \in 1..Len(d) : d[i].key = key
    THEN [i \in 1..Len(d) |-> IF d[i].key = key THEN [key |-> key, val |-> val] ELSE d[i]]
    ELSE Append(d, [key |-> key, val |-> val])

Keys(d) == [i \in 1..Len(d) |-> d[i].key]

\* a walk that counts the components from one
CompIdx_fromOne(i) == i + 1

\* the index handed to _load_component_header: the loop variable
CompIdx(i) == i

\* nbodies += data['nbodies']
AddBodies(mode, nbodies, n) == NumAdd(nbodies, n, IntWidth(mode))

ScanFailed(exc, reads) ==
    [exc |-> exc, headers |-> <<>>, nbodies |-> <<>>, reads |-> reads]

RECURSIVE Walk(_, _, _, _, _, _, _, _, _)
\* comp_header[data.pop('name')] = data; nbodies += data['nbodies']
WalkStep(b, mode, fl, ncomp, i, comp_header, nbodies, reads, h) ==
    IF h.exc # "none" THEN ScanFailed(h.exc, Append(reads, h.read))
    ELSE IF h.name = "" THEN ScanFailed("KeyError", Append(reads, h.read))
    ELSE Walk(b, mode, fl, ncomp, i + 1, h.pos,
              DictSet(comp_header, h.name, h.data),
              AddBodies(mode, nbodies, h.data.nbodies),
              Append(reads, h.read))

\* for i in range(self._ncomp): data = self._load_component_header(f, i)
Walk(b, mode, fl, ncomp, i, pos, comp_header, nbodies, reads) ==
    IF NumEq(Bytes(i, 4), ncomp)
    THEN [exc |-> "none", headers |-> comp_header, nbodies |-> nbodies, reads |-> reads]
    ELSE WalkStep(b, mode, fl, ncomp, i, comp_header, nbodies, reads,
                  LoadComponentHeader(b, mode, fl, pos, CompIdx(i)))

ScanResult(w, fl, counts) ==
    [exc |-> w.exc, headers |-> w.headers, nbodies |-> w.nbodies, reads |-> w.reads,
     float_len |-> fl, nbodies_tot |-> counts.items[1], ncomp |-> counts.items[2]]

\* self._nbodies_tot, self._ncomp = np.fromfile(f, dtype=np.uint32, count=2)
\* and the loop over the components
ScanComponents(b, mode, fl, counts) ==
    ScanResult(Walk(b, mode, fl, counts.items[2], 0, counts.pos, <<>>, <<>>, <<>>),
               fl, counts)

\* f.seek(0); self.time, = np.fromfile(f, dtype='<f8', count=1)
ScanCounts(b, mode, fl, time) == ScanComponents(b, mode, fl, FromFile(b, time.pos, 4, 2))

\* cmagic, = np.fromfile(...): exactly one word
ScanMagic(b, mode, magic) ==
    IF Len(magic.items) # 1
    THEN [exc |-> "ValueError", headers |-> <<>>, nbodies |-> <<>>, reads |-> <<>>,
          float_len |-> 0, nbodies_tot |-> <<>>, ncomp |-> <<>>]
    ELSE ScanCounts(b, mode, FloatLen(magic.items[1]), FromFile(b, 0, 8, 1))

\* f.seek(16); cmagic, = np.fromfile(f, dtype=np.uint32, count=1)
LoadHeaders(b, mode) == ScanMagic(b, mode, FromFile(b, 16, 4, 1))

(***************************************************************************)
(* PSPFile._load_component_data                                            *)
(***************************************************************************)
Truthy(v) == v # 0

\* a header's attribute counts are small enough for the lists of column
\* names and formats to be built
Buildable(hdr) == Small(hdr.nint_attr) /\ Small(hdr.nfloat_attr)

\* colnames and dtype_str, as one list of named widths: 'l' is 8 bytes,
\* 'f' 4, 'd' 8 and 'i' 4
Columns(hdr, fl) ==
    (IF Truthy(hdr.indexing) THEN <<[name |-> "index", width |-> 8]>> ELSE <<>>)
    \o [i \in 1..8 |-> [name |-> <<"m", "x", "y", "z", "vx", "vy", "vz", "potE">>[i],
                        width |-> fl]]
    \o [i \in 1..Val(hdr.nint_attr) |-> [name |-> "i_attr" \o ToString(i - 1), width |-> 4]]
    \o [i \in 1..Val(hdr.nfloat_attr) |-> [name |-> "f_attr" \o ToString(i - 1), width |-> fl]]

RECURSIVE WidthsBefore(_, _)
\* the offset of the i-th field in the packed record dtype
WidthsBefore(cols, i) == IF i <= 1 THEN 0 ELSE cols[i - 1].width + WidthsBefore(cols, i - 1)

ItemSize(cols) == WidthsBefore(cols, Len(cols) + 1)

\* np.memmap(filename, dtype, shape=(1, nbodies), offset=data_start, mode='r')
\* maps offset + nbodies * itemsize bytes of the file, and fails when the
\* file is shorter
MapFits(b, hdr, cols) ==
    LET bytes == ExactAdd(Bytes(hdr.data_start, 4), ExactMul(hdr.nbodies, Bytes(ItemSize(cols), 4)))
    IN  Small(bytes) /\ Val(bytes) <= Len(b)

\* out['f{i}'][0][r]: row r (0-based) of field i of the mapped records
Cell(b, hdr, cols, i, r) ==
    LET at == hdr.data_start + r * ItemSize(cols) + WidthsBefore(cols, i)
    IN  SubSeq(b, at + 1, at + cols[i].width)

\* tbl[name] = np.array(out['f{}'.format(i)][0], copy=True), for every column
ExtractTable(b, hdr, cols) ==
    [i \in 1..Len(cols) |->
        [name |-> cols[i].name,
         cells |-> [r \in 1..Val(hdr.nbodies) |-> Cell(b, hdr, cols, i, r - 1)]]]

\* len(table)
Rows(tbl) == Len(tbl[1].cells)

(***************************************************************************)
(* The PSPFile object.                                                     *)
(***************************************************************************)
VARIABLES
    disk,          \* the bytes of the file named by self.filename
    numpy,         \* the scalar arithmetic of the numpy in use
    obj,           \* "new" before __init__, then "ready" or "failed"
    comp_headers,  \* self._comp_headers: <<>> is None, <<d>> the dict d
    comp_data,     \* self._comp_data: <<>> is None, <<d>> the dict d
    float_len,     \* self._float_len
    nbodies,       \* self.nbodies
    nbodies_tot,   \* self._nbodies_tot
    pc,            \* where a call of the data property is: "idle", "loop", "mapped"
    k,             \* _load_data: the position of the loop over the headers
    acc,           \* _load_data: the local comp_data
    ndatabodies,   \* _load_data: the local ndatabodies
    live,          \* memory mappings of the file that are open
    err,           \* the exception the last call raised to its caller, or "none"
    cause,         \* the exception raised inside the try of __init__, or "none"
    ret,           \* the property whose value the last access returned, or "none"
    scans,         \* how many times _load_headers has run
    reopened,      \* the file was opened while _comp_data was loaded
    hdrReads       \* the np.fromfile calls of the header scan for the header words

vars == << disk, numpy, obj, comp_headers, comp_data, float_len, nbodies, nbodies_tot,
           pc, k, acc, ndatabodies, live, err, cause, ret, scans, reopened, hdrReads >>

None == <<>>
NoRet == "none"

\* the value the last access returned: the properties hand out the slot
\* itself, component_names a new list of the keys
Returned ==
    CASE ret = "headers" -> comp_headers[1]
      [] ret = "names" -> Keys(comp_headers[1])
      [] ret = "data" -> comp_data[1]
      [] OTHER -> <<>>

Init ==
    /\ disk \in Files
    /\ numpy \in NumpyModes
    /\ obj = "new"
    /\ comp_headers = None
    /\ comp_data = None
    /\ float_len = 0
    /\ nbodies = <<>>
    /\ nbodies_tot = <<>>
    /\ pc = "idle"
    /\ k = 0
    /\ acc = <<>>
    /\ ndatabodies = 0
    /\ live = 0
    /\ err = "none"
    /\ cause = "none"
    /\ ret = NoRet
    /\ scans = 0
    /\ reopened = FALSE
    /\ hdrReads = <<>>

Units == {"None", "unit"}

\* a constructor that lets the exception of the scan through
WrapHeaderError_reraise(exc) == exc

\* except Exception: raise IOError('Failed to load header ...')
WrapHeaderError(exc) == "IOError"

\* the headers property: the scan runs when the slot is None
NeedsHeaders == comp_headers = None

\* a data property that does not look at the slot
NeedsData_always == TRUE

\* the data property: the load runs when the slot is None
NeedsData == comp_data = None

\* a load that accumulates into the slot itself
DataAfterFailure_partial(partial) == <<partial>>

\* what a failed _load_data leaves in self._comp_data: the dict is a local
\* of _load_data, assigned to the slot on return only
DataAfterFailure(partial) == None

\* try: self.headers / except Exception: raise IOError(...), with h what
\* _load_headers did
HeadersLoaded(h) ==
    /\ scans' = scans + 1
    /\ reopened' = (reopened \/ comp_data # None)
    /\ hdrReads' = h.reads
    /\ cause' = h.exc
    /\ IF h.exc # "none"
       THEN /\ obj' = "failed"
            /\ err' = WrapHeaderError(h.exc)
            /\ UNCHANGED << comp_headers, float_len, nbodies, nbodies_tot >>
       ELSE /\ obj' = "ready"
            /\ err' = "none"
            /\ comp_headers' = <<h.headers>>
            /\ float_len' = h.float_len
            /\ nbodies' = h.nbodies
            /\ nbodies_tot' = h.nbodies_tot

\* PSPFile.__init__.  The unit attributes are not kept: no loader reads them.
Construct(pos_unit, vel_unit) ==
    /\ obj = "new"
    /\ IF (pos_unit = "None") # (vel_unit = "None")
       THEN /\ obj' = "failed"
            /\ err' = "ValueError"
            /\ UNCHANGED << comp_headers, float_len, nbodies, nbodies_tot, cause, scans,
                            reopened, hdrReads >>
       ELSE HeadersLoaded(LoadHeaders(disk, numpy))
    /\ UNCHANGED << disk, numpy, comp_data, pc, k, acc, ndatabodies, live, ret >>

Callable == obj = "ready" /\ pc = "idle" /\ err = "none"

\* self._comp_headers = self._load_headers(), outside the constructor's try
Rescanned(h, kind) ==
    /\ scans' = scans + 1
    /\ reopened' = (reopened \/ comp_data # None)
    /\ hdrReads' = h.reads
    /\ IF h.exc # "none"
       THEN /\ err' = h.exc
            /\ ret' = NoRet
            /\ UNCHANGED << comp_headers, float_len, nbodies, nbodies_tot >>
       ELSE /\ err' = "none"
            /\ ret' = kind
            /\ comp_headers' = <<h.headers>>
            /\ float_len' = h.float_len
            /\ nbodies' = h.nbodies
            /\ nbodies_tot' = h.nbodies_tot

\* the headers property: the slot when it is loaded, else the scan
HeadersProperty(kind) ==
    /\ Callable
    /\ IF NeedsHeaders
       THEN Rescanned(LoadHeaders(disk, numpy), kind)
       ELSE /\ ret' = kind
            /\ UNCHANGED << comp_headers, float_len, nbodies, nbodies_tot, err, scans,
                            reopened, hdrReads >>
    /\ UNCHANGED << disk, numpy, obj, comp_data, pc, k, acc, ndatabodies, live, cause >>

AccessHeaders == HeadersProperty("headers")

\* list(self.headers.keys())
AccessComponentNames == HeadersProperty("names")

\* the data property: the slot when it is loaded, else _load_data is entered
AccessData ==
    /\ Callable
    /\ IF NeedsData
       THEN /\ pc' = "loop"
            /\ k' = 1
            /\ acc' = <<>>
            /\ ndatabodies' = 0
            /\ ret' = NoRet
       ELSE /\ ret' = "data"
            /\ UNCHANGED << pc, k, acc, ndatabodies >>
    /\ UNCHANGED << disk, numpy, obj, comp_headers, comp_data, float_len, nbodies,
                    nbodies_tot, live, err, cause, scans, reopened, hdrReads >>

\* _load_data raises: the data property assigns nothing
RaiseFromLoad(exc) ==
    /\ pc' = "idle"
    /\ err' = exc
    /\ comp_data' = DataAfterFailure(acc)
    /\ k' = 0
    /\ acc' = <<>>
    /\ ndatabodies' = 0

\* _load_data at the head of its loop: the next header's lists are built and
\* its records mapped, or, after the last header, the counts are compared
\* and the dict is returned and stored
LoadNext ==
    /\ pc = "loop"
    /\ LET headers == comp_headers[1]
       IN  IF k > Len(headers)
           THEN IF NumEq(nbodies, Bytes(ndatabodies, 4))
                THEN /\ comp_data' = <<acc>>
                     /\ ret' = "data"
                     /\ pc' = "idle"
                     /\ k' = 0
                     /\ acc' = <<>>
                     /\ ndatabodies' = 0
                     /\ UNCHANGED << err, live, reopened >>
                ELSE /\ RaiseFromLoad("AssertionError")
                     /\ UNCHANGED << ret, live, reopened >>
           ELSE LET hdr == headers[k].val
                IN  IF ~Buildable(hdr)
                    THEN /\ RaiseFromLoad("MemoryError")
                         /\ UNCHANGED << ret, live, reopened >>
                    ELSE /\ reopened' = (reopened \/ comp_data # None)
                         /\ IF MapFits(disk, hdr, Columns(hdr, float_len))
                            THEN /\ live' = live + 1
                                 /\ pc' = "mapped"
                                 /\ UNCHANGED << comp_data, k, acc, ndatabodies, err, ret >>
                            ELSE /\ RaiseFromLoad("ValueError")
                                 /\ UNCHANGED << ret, live >>
    /\ UNCHANGED << disk, numpy, obj, comp_headers, float_len, nbodies, nbodies_tot,
                    cause, scans, hdrReads >>

\* the columns are copied out of the mapping, the mapping is deleted and the
\* table is built and stored under the component's name
\* comp_data[name] = ...; ndatabodies += len(comp_data[name])
StoreTable(name, tbl) ==
    /\ acc' = DictSet(acc, name, tbl)
    /\ ndatabodies' = ndatabodies + Rows(tbl)

LoadComponentData(b, hdr, fl) == ExtractTable(b, hdr, Columns(hdr, fl))

ExtractColumns ==
    /\ pc = "mapped"
    /\ StoreTable(comp_headers[1][k].key,
                  LoadComponentData(disk, comp_headers[1][k].val, float_len))
    /\ live' = live - 1
    /\ k' = k + 1
    /\ pc' = "loop"
    /\ UNCHANGED << disk, numpy, obj, comp_headers, comp_data, float_len, nbodies,
                    nbodies_tot, err, cause, ret, scans, reopened, hdrReads >>

\* a copy of a column cannot be allocated: the exception leaves
\* _load_component_data before `del out`, and its traceback holds the frame
\* whose local `out` is the mapping
ExtractFails ==
    /\ pc = "mapped"
    /\ RaiseFromLoad("MemoryError")
    /\ UNCHANGED << disk, numpy, obj, comp_headers, float_len, nbodies, nbodies_tot,
                    live, cause, ret, scans, reopened, hdrReads >>

\* at.Table(tbl) fails: `del out` has run
TableFails ==
    /\ pc = "mapped"
    /\ RaiseFromLoad("MemoryError")
    /\ live' = live - 1
    /\ UNCHANGED << disk, numpy, obj, comp_headers, float_len, nbodies, nbodies_tot,
                    cause, ret, scans, reopened, hdrReads >>

\* the caller is done with the exception of a failed data load: with the
\* traceback gone, what its frames held is collected
DropException ==
    /\ obj = "ready"
    /\ pc = "idle"
    /\ err # "none"
    /\ err' = "none"
    /\ live' = 0
    /\ UNCHANGED << disk, numpy, obj, comp_headers, comp_data, float_len, nbodies,
                    nbodies_tot, pc, k, acc, ndatabodies, cause, ret, scans, reopened,
                    hdrReads >>

Next ==
    \/ \E pos_unit \in Units, vel_unit \in Units : Construct(pos_unit, vel_unit)
    \/ AccessHeaders
    \/ AccessComponentNames
    \/ AccessData
    \/ LoadNext
    \/ ExtractColumns
    \/ ExtractFails
    \/ TableFails
    \/ DropException

Spec == Init /\ [][Next]_vars

(***************************************************************************)
(* What the properties below are stated with.                              *)
(***************************************************************************)
HeadersLoadedNow == comp_headers # None
DataLoadedNow == comp_data # None

\* the tables _load_component_data has returned: those of the stored dict,
\* or those of the load in progress
Tables == IF DataLoadedNow THEN comp_data[1] ELSE acc

HeaderOf(name) ==
    LET d == comp_headers[1]
    IN  d[CHOOSE i \in 1..Len(d) : d[i].key = name].val

\* the uint32 at byte offset 16
Word16 == SubSeq(disk, 17, 20)

FixedColumns == <<"m", "x", "y", "z", "vx", "vy", "vz", "potE">>

FloatColumnNames ==
    {FixedColumns[i] : i \in 1..8} \cup {"f_attr" \o ToString(i) : i \in 0..MaxAttr}

\* the record size of the header walk, from the header's fields
WalkerRecord(hdr) ==
    8 * hdr.indexing + 8 * float_len + 4 * Val(hdr.nint_attr) + float_len * Val(hdr.nfloat_attr)

\* the columns a table is to have: <<name, width, offset in the record>>
ClaimedColumns(hdr) ==
    LET ix == IF hdr.indexing # 0 THEN 1 ELSE 0
        ni == Val(hdr.nint_attr)
        nf == Val(hdr.nfloat_attr)
        base == 8 * ix
    IN  [c \in 1..(ix + 8 + ni + nf) |->
            IF c <= ix THEN <<"index", 8, 0>>
            ELSE IF c <= ix + 8
                 THEN <<FixedColumns[c - ix], float_len, base + (c - ix - 1) * float_len>>
            ELSE IF c <= ix + 8 + ni
                 THEN <<"i_attr" \o ToString(c - ix - 9), 4,
                        base + 8 * float_len + (c - ix - 9) * 4>>
            ELSE <<"f_attr" \o ToString(c - ix - 9 - ni), float_len,
                   base + 8 * float_len + 4 * ni + (c - ix - 9 - ni) * float_len>>]

\* the bytes of the file at [at, at + width), when the file has them
FileBytes(at, width) ==
    IF at + width <= Len(disk) THEN SubSeq(disk, at + 1, at + width) ELSE <<>>

(***************************************************************************)
(* C1: a data load succeeds only if the sum of the components' body        *)
(* counts equals the master header's total_bodies; when they differ the    *)
(* load fails instead of returning tables.                                 *)
(* The code compares self.nbodies with the rows of its own tables and      *)
(* never reads self._nbodies_tot again: the statement fails.               *)
(***************************************************************************)
C1_LoadChecksTotalBodies == DataLoadedNow => NumEq(nbodies, nbodies_tot)

(***************************************************************************)
(* C2: a construction whose header stage fails, for whatever reason, ends  *)
(* in the one umbrella error (IOError), never in the low-level error, and  *)
(* never in an object whose headers slot is loaded.                        *)
(***************************************************************************)
C2_HeaderFailureIsUmbrella ==
    (cause # "none") => (obj = "failed" /\ err = "IOError" /\ ~HeadersLoadedNow)

\* a short read of a component's info string, reported as the umbrella error
C2_Witness == cause = "IndexError" /\ err = "IOError" /\ Len(hdrReads) = 2

(***************************************************************************)
(* C3: float_width is 4 exactly when the uint32 at offset 16 is            *)
(* 2915019716, and 8 for every other value; it is decided once per scan    *)
(* and used for every component: every component header is read as 6       *)
(* words when it is 4 and as 4 words when it is 8, and every float column  *)
(* of every table has that width.                                          *)
(***************************************************************************)
C3_FloatWidthFromMagic ==
    (scans > 0 /\ Len(disk) >= 20) =>
        LET width == IF Word16 = Magic THEN 4 ELSE 8
        IN  /\ \A i \in 1..Len(hdrReads) :
                    hdrReads[i].count = (IF width = 4 THEN 6 ELSE 4)
            /\ obj = "ready" =>
                    /\ float_len = width
                    /\ \A i \in 1..Len(hdrReads) : hdrReads[i].got = hdrReads[i].count
            /\ \A t \in 1..Len(Tables) : \A c \in 1..Len(Tables[t].val) :
                    LET col == Tables[t].val[c]
                    IN  (col.name \in FloatColumnNames)
                            => \A r \in 1..Len(col.cells) : Len(col.cells[r]) = width

\* a single-precision file of two components, loaded
C3_Witness ==
    /\ DataLoadedNow
    /\ float_len = 4
    /\ Len(comp_data[1]) = 2
    /\ \E t \in 1..2 : Rows(comp_data[1][t].val) = 2

(***************************************************************************)
(* C4: the table of a component has exactly the columns [index (if         *)
(* parameters.indexing is truthy), m, x, y, z, vx, vy, vz, potE,           *)
(* i_attr*, f_attr*], each of length body_count, and the value of column   *)
(* c in row r is read at data_start + r * record_size + offset(c), with    *)
(* record_size the record size of the header walk.                         *)
(* The walk counts 8 * int(indexing) bytes for the index and the mapper    *)
(* 8 bytes when indexing is truthy: for indexing 2 the two differ.         *)
(***************************************************************************)
C4_TableLayout ==
    \A t \in 1..Len(Tables) :
        LET hdr == HeaderOf(Tables[t].key)
            tbl == Tables[t].val
            cols == ClaimedColumns(hdr)
        IN  /\ Len(tbl) = Len(cols)
            /\ \A c \in 1..Len(tbl) :
                /\ tbl[c].name = cols[c][1]
                /\ Len(tbl[c].cells) = Val(hdr.nbodies)
                /\ \A r \in 1..Len(tbl[c].cells) :
                        tbl[c].cells[r] =
                            FileBytes(hdr.data_start + (r - 1) * WalkerRecord(hdr) + cols[c][3],
                                      cols[c][2])

(***************************************************************************)
(* C5: when a component's computed data_end_offset exceeds the length of   *)
(* the file, the load fails and no table is returned for that component,   *)
(* the last component included.                                            *)
(* It fails with C4's divergence: for indexing 2 the walk's data_end lies  *)
(* past the end of a file whose records the mapper reads in full.          *)
(***************************************************************************)
C5_NoTablePastEnd ==
    \A t \in 1..Len(Tables) :
        LET hdr == HeaderOf(Tables[t].key)
        IN  Small(hdr.data_end) /\ Val(hdr.data_end) <= Len(disk)

\* a step keeps what is loaded, and an access to the loaded data returns it
C6_SlotsStep ==
    /\ HeadersLoadedNow => comp_headers' = comp_headers
    /\ DataLoadedNow => (comp_data' = comp_data /\ scans' = scans)
    /\ (DataLoadedNow /\ ret' = "data") => Returned' = comp_data[1]

\* one scan, made by the constructor, and no return to the file after the load
C6_SlotsState ==
    /\ DataLoadedNow => HeadersLoadedNow
    /\ obj = "ready" => (HeadersLoadedNow /\ scans = 1)
    /\ scans <= 1
    /\ ~reopened

(***************************************************************************)
(* C6: each slot goes from unloaded to loaded at most once and never back; *)
(* data loaded implies headers loaded; the header scan runs exactly once,  *)
(* at construction; once the data is loaded every later access returns     *)
(* the same tables and the file is not opened again.                       *)
(***************************************************************************)
C6_LazySlots == [][C6_SlotsStep]_vars /\ []C6_SlotsState

\* the names are listed after the data was loaded
C6_Witness == DataLoadedNow /\ ret = "names" /\ Len(comp_data[1]) = 2

(***************************************************************************)
(* C7: when a component's load or the aggregate count check fails, the     *)
(* load aborts and the data slot stays unloaded: a mapping with only some  *)
(* of the components is never stored or returned; a failed header scan     *)
(* leaves the headers slot unloaded.                                       *)
(***************************************************************************)
C7_NoPartialLoad ==
    /\ (obj = "ready" /\ err # "none") => (~DataLoadedNow /\ ret # "data")
    /\ DataLoadedNow => Keys(comp_data[1]) = Keys(comp_headers[1])
    /\ (cause # "none") => ~HeadersLoadedNow

\* the second component's records do not fit the file: the first table is dropped
C7_Witness ==
    /\ obj = "ready"
    /\ err = "ValueError"
    /\ Len(comp_headers[1]) = 2
    /\ MapFits(disk, comp_headers[1][1].val, Columns(comp_headers[1][1].val, float_len))
    /\ ~DataLoadedNow

\* the record size of the header walk, without wrap-around
ExactRecord(hdr) ==
    ExactAdd(ExactAdd(Bytes(8 * hdr.indexing + 8 * float_len, 4),
                      ExactMul(U32(4), hdr.nint_attr)),
             ExactMul(U32(float_len), hdr.nfloat_attr))

(***************************************************************************)
(* C8: for every component header and every uint32 body_count,             *)
(* int_attr_count and float_attr_count, data_end - data_start is           *)
(* body_count * record_size, record_size = 8 * indexing_flag               *)
(* + 8 * float_width + 4 * int_attr_count + float_width * float_attr_count,*)
(* with no wrap-around.                                                    *)
(* The product is a numpy scalar product: it wraps modulo 2^32 under       *)
(* NEP 50 and modulo 2^64 before it.                                       *)
(***************************************************************************)
C8_ExtentIsExact ==
    HeadersLoadedNow =>
        \A i \in 1..Len(comp_headers[1]) :
            LET hdr == comp_headers[1][i].val
            IN  NumEq(hdr.data_end,
                      ExactAdd(Bytes(hdr.data_start, 4),
                               ExactMul(hdr.nbodies, ExactRecord(hdr))))

\* the info string of the j-th component walked
InfoOf(j) ==
    LET at == hdrReads[j].pos + 4 * hdrReads[j].count
    IN  SubSeq(disk, at + 1, at + Val(SubSeq(disk, at - 3, at)))

NameOf(j) == IF \E i \in 1..Len(InfoOf(j)) : InfoOf(j)[i] = 98 /\ \A l \in (i + 1)..Len(InfoOf(j)) : InfoOf(j)[l] # 97
             THEN "b" ELSE "a"

\* where the records of the j-th component walked begin
DataStartOf(j) == hdrReads[j].pos + 4 * hdrReads[j].count + Len(InfoOf(j))

Walked == 1..Len(hdrReads)

FirstOf(j) == \A l \in Walked : NameOf(l) = NameOf(j) => l >= j
LastOf(j) == \A l \in Walked : NameOf(l) = NameOf(j) => l <= j

C10_MappingReleased == live <= 1 /\ (pc # "mapped" => live = 0)
====
